---- MODULE Spec2Model ----
(***************************************************************************)
(* SmartGit: HEAD-based change analysis (lib/analyzer.js, kept in          *)
(* src/lib/config.js), commit message suggestion (lib/suggester.js) and    *)
(* the summary line shown by the CLI.                                      *)
(*                                                                         *)
(* Text is modelled as sequences of one-character strings, so that trim,   *)
(* split, slice, includes and toLowerCase are computed as JavaScript       *)
(* computes them.  The git repository is modelled by three trees (HEAD,    *)
(* index, working tree) over a small set of paths; the answers of          *)
(* `git status --porcelain` and `git diff` are derived from the trees.     *)
(***************************************************************************)
EXTENDS Integers, Sequences, FiniteSets, TLC

(***************************************************************************)
(* Bounds                                                                  *)
(***************************************************************************)
\* number of analyzeChanges calls followed in one behaviour
MaxCalls == 2

(***************************************************************************)
(* Text helpers (JavaScript String methods on character sequences)         *)
(***************************************************************************)
RECURSIVE Str(_)
\* the characters of s as one string
Str(s) == IF s = <<>> THEN "" ELSE Head(s) \o Str(Tail(s))

IsSpace(c) == c \in {" ", "\n"}

RECURSIVE TrimStart(_)
TrimStart(s) ==
  IF s # <<>> /\ IsSpace(Head(s)) THEN TrimStart(Tail(s)) ELSE s

RECURSIVE TrimEnd(_)
TrimEnd(s) ==
  IF s # <<>> /\ IsSpace(s[Len(s)]) THEN TrimEnd(SubSeq(s, 1, Len(s) - 1)) ELSE s

\* String.prototype.trim
Trim(s) == TrimEnd(TrimStart(s))

\* s.slice(k) with a 0-based start k >= 0
Slice(s, k) == SubSeq(s, k + 1, Len(s))

\* s.includes(p)
Includes(s, p) == \E i \in 1..(Len(s) - Len(p) + 1) : SubSeq(s, i, i + Len(p) - 1) = p

\* 1-based position of the first occurrence of p in s, 0 when there is none
IndexOf(s, p) ==
  IF Includes(s, p)
  THEN CHOOSE i \in 1..(Len(s) - Len(p) + 1) :
         /\ SubSeq(s, i, i + Len(p) - 1) = p
         /\ \A j \in 1..(i - 1) : SubSeq(s, j, j + Len(p) - 1) # p
  ELSE 0

RECURSIVE Split(_, _)
\* s.split(sep) for a non-empty separator
Split(s, sep) ==
  LET i == IndexOf(s, sep)
  IN IF i = 0 THEN <<s>>
     ELSE <<SubSeq(s, 1, i - 1)>> \o Split(SubSeq(s, i + Len(sep), Len(s)), sep)

Upper == <<"A","B","C","D","E","F","G","H","I","J","K","L","M",
           "N","O","P","Q","R","S","T","U","V","W","X","Y","Z">>
Lower == <<"a","b","c","d","e","f","g","h","i","j","k","l","m",
           "n","o","p","q","r","s","t","u","v","w","x","y","z">>

LowerChar(c) ==
  IF \E i \in 1..26 : Upper[i] = c
  THEN Lower[CHOOSE i \in 1..26 : Upper[i] = c]
  ELSE c

\* String.prototype.toLowerCase
ToLowerCase(s) == [i \in 1..Len(s) |-> LowerChar(s[i])]

RECURSIVE Flatten(_)
\* concatenation of a sequence of sequences
Flatten(ss) == IF ss = <<>> THEN <<>> ELSE Head(ss) \o Flatten(Tail(ss))

RECURSIVE SelectIdx(_, _, _)
\* the indices i of lo..hi with keep[i], in increasing order
SelectIdx(keep, lo, hi) ==
  IF lo > hi THEN <<>>
  ELSE (IF keep[lo] THEN <<lo>> ELSE <<>>) \o SelectIdx(keep, lo + 1, hi)

\* the set of elements of a sequence
Range(s) == {s[i] : i \in 1..Len(s)}

\* Array.prototype.includes
Has(s, x) == \E i \in 1..Len(s) : s[i] = x

\* number of positions of s holding x
Count(s, x) == Cardinality({i \in 1..Len(s) : s[i] = x})

(***************************************************************************)
(* Paths of the modelled repositories                                      *)
(***************************************************************************)
P_new     == <<"n","e","w",".","j","s">>
P_old     == <<"o","l","d",".","j","s">>
P_app     == <<"s","r","c","/","a","p","p",".","j","s">>
P_spec    == <<"t","e","s","t","/","f","o","o",".","s","p","e","c",".","j","s">>
P_readme  == <<"R","E","A","D","M","E",".","m","d">>
P_guide   == <<"d","o","c","s","/","g","u","i","d","e",".","m","d">>
P_liba    == <<"l","i","b","/","a",".","j","s">>
P_pkg     == <<"p","a","c","k","a","g","e",".","j","s","o","n">>
DevNull   == <<"/","d","e","v","/","n","u","l","l">>

\* Each world is a list of paths in git's (byte) order with the content each
\* path has in the last commit when a commit exists (0: not in the commit).
Worlds ==
  << [paths |-> <<P_new, P_old>>,     tree |-> <<0, 1>>],
     [paths |-> <<P_app, P_spec>>,    tree |-> <<1, 0>>],
     [paths |-> <<P_readme, P_guide>>, tree |-> <<1, 1>>],
     [paths |-> <<P_liba, P_pkg>>,    tree |-> <<1, 1>>] >>

\* file contents: 0 is "no file", v > 0 is a version of the text
Versions == {1, 2}
Contents == {0} \cup Versions

\* the lines of version v (distinct lines; versions 1 and 2 share line 2)
LinesOf(v) == IF v = 0 THEN {} ELSE v..(2 * v)

Modes == {"all", "staged", "unstaged"}

VARIABLES
  paths,        \* the paths of the repository, in git's order
  isRepo,       \* the directory is a git repository
  hasHead,      \* the repository has at least one commit
  head,         \* content of each path in HEAD
  index,        \* content of each path in the index
  work,         \* content of each path in the working tree
  flagsRenames, \* the installed diff parser sets `renamed` on rename entries
  pc,           \* position of the analyzeChanges call
  mode,         \* options.mode of the call in progress
  calls,        \* number of calls started
  seenHead,     \* result of checkHasHead
  statusOutput, \* text returned by git status --porcelain
  status,       \* parsePorcelainStatus(statusOutput)
  stagedDiff,   \* entries returned by git diff --cached HEAD
  diffOutput,   \* entries of the diff text handed to parseDiff
  result,       \* value returned by the call (or the error thrown)
  message,      \* generateCommitMessage(result)
  summaryLine,  \* getChangeSummary(result)
  lastMode,     \* mode of the previous call
  lastResult,   \* result of the previous call
  lastMessage,  \* suggested message of the previous call
  log,          \* the git commands issued so far by the run in progress
  action,       \* the user's answer to the confirmation prompt
  finalMessage, \* the message handed to executeGitWorkflow
  results,      \* the results object of executeGitWorkflow
  shownError,   \* the error message the command printed before exit(1)
  pushError,    \* message of the first failure of the push stage
  startHead,    \* the last commit when the push command started
  startIndex,   \* the index when the push command started
  startWork     \* the working tree when the push command started

vars == <<paths, isRepo, hasHead, head, index, work, flagsRenames, pc, mode,
          calls, seenHead, statusOutput, status, stagedDiff, diffOutput,
          result, message, summaryLine, lastMode, lastResult, lastMessage,
          log, action, finalMessage, results, shownError, pushError, startHead, startIndex, startWork>>

pushVars == <<action, finalMessage, results, shownError, pushError, startHead, startIndex, startWork>>

repoVars == <<paths, isRepo, hasHead, head, index, work, flagsRenames>>

N == Len(paths)

(***************************************************************************)
(* The version-control tool: what git answers for the three trees          *)
(***************************************************************************)
\* git pairs a path removed from `old` with a path added in `new` that has
\* identical content and reports the pair as a rename.  RenameSource(old,
\* new, k) is the path index whose rename produced path k, 0 when there is
\* none.
IsRemoved(old, new, q) == old[q] # 0 /\ new[q] = 0
IsAdded(old, new, k)   == old[k] = 0 /\ new[k] # 0

Candidates(old, new, k) ==
  {q \in 1..N : IsRemoved(old, new, q) /\ IsAdded(old, new, k) /\ old[q] = new[k]}

FirstSource(old, new, k) ==
  IF Candidates(old, new, k) = {} THEN 0
  ELSE CHOOSE q \in Candidates(old, new, k) :
         \A r \in Candidates(old, new, k) : q <= r

RenameSource(old, new, k) ==
  LET q == FirstSource(old, new, k)
  IN IF q # 0 /\ \A j \in 1..(k - 1) : FirstSource(old, new, j) # q THEN q ELSE 0

IsRenameSource(old, new, q) == \E k \in 1..N : RenameSource(old, new, k) = q

\* the tree `git diff` compares against: the working-tree content of the
\* paths the index tracks
TrackedWork(i, w) == [k \in 1..N |-> IF i[k] = 0 THEN 0 ELSE w[k]]

\* index column of a short status line
StatusX(h, i, k) ==
  IF RenameSource(h, i, k) # 0 THEN "R"
  ELSE IF h[k] = 0 /\ i[k] # 0 THEN "A"
  ELSE IF h[k] # 0 /\ i[k] = 0 THEN "D"
  ELSE IF h[k] # i[k] THEN "M"
  ELSE " "

\* working-tree column of a short status line
StatusY(i, w, k) ==
  IF i[k] = 0 THEN " "
  ELSE IF w[k] = 0 THEN "D"
  ELSE IF w[k] # i[k] THEN "M"
  ELSE " "

\* the line of tracked path k, <<>> when git prints none
TrackedLine(h, i, w, k) ==
  LET x == StatusX(h, i, k)
      y == StatusY(i, w, k)
  IN IF IsRenameSource(h, i, k) \/ (x = " " /\ y = " ") THEN <<>>
     ELSE IF x = "R"
          THEN <<x, y, " ">> \o paths[RenameSource(h, i, k)]
                 \o <<" ", "-", ">", " ">> \o paths[k] \o <<"\n">>
          ELSE <<x, y, " ">> \o paths[k] \o <<"\n">>

\* the line of an untracked path k
UntrackedLine(i, w, k) ==
  IF i[k] = 0 /\ w[k] # 0 THEN <<"?", "?", " ">> \o paths[k] \o <<"\n">> ELSE <<>>

\* git status --porcelain: changed tracked paths, then untracked paths
GitStatus(h, i, w) ==
  Flatten([k \in 1..N |-> TrackedLine(h, i, w, k)])
    \o Flatten([k \in 1..N |-> UntrackedLine(i, w, k)])

\* the paths git status lists
StatusPaths(h, i, w) ==
  {paths[k] : k \in {j \in 1..N :
      TrackedLine(h, i, w, j) # <<>> \/ UntrackedLine(i, w, j) # <<>>}}

\* one file section of a unified diff between trees old and new
DiffEntry(old, new, k) ==
  LET q == RenameSource(old, new, k)
  IN IF q # 0
     THEN [kind |-> "rename", old |-> paths[q], new |-> paths[k],
           del |-> 0, add |-> 0, ctx |-> 0]
     ELSE [kind |-> IF old[k] = 0 THEN "new"
                    ELSE IF new[k] = 0 THEN "delete" ELSE "modify",
           old |-> paths[k], new |-> paths[k],
           del |-> Cardinality(LinesOf(old[k]) \ LinesOf(new[k])),
           add |-> Cardinality(LinesOf(new[k]) \ LinesOf(old[k])),
           ctx |-> Cardinality(LinesOf(old[k]) \cap LinesOf(new[k]))]

\* the file sections of `git diff` between two trees, in path order
GitDiffTrees(old, new) ==
  LET keep == [k \in 1..N |-> old[k] # new[k] /\ ~IsRenameSource(old, new, k)]
      ks   == SelectIdx(keep, 1, N)
  IN [j \in 1..Len(ks) |-> DiffEntry(old, new, ks[j])]

\* git diff --cached HEAD
GitDiffCached(h, i) == GitDiffTrees(h, i)
\* git diff HEAD
GitDiffHead(h, i, w) == GitDiffTrees(h, TrackedWork(i, w))
\* git diff
GitDiffPlain(i, w) == GitDiffTrees(i, TrackedWork(i, w))

(***************************************************************************)
(* parse-diff: one record per file section                                 *)
(***************************************************************************)
\* the changes of the hunk of a section: context, deleted and added lines
HunkChanges(e) ==
  [j \in 1..(e.ctx + e.del + e.add) |->
     IF j <= e.ctx THEN "normal" ELSE IF j <= e.ctx + e.del THEN "del" ELSE "add"]

\* the record parseDiff builds for section e; `additions` and `deletions`
\* are the parser's own tallies of the hunk lines.  A deleted file has
\* to = /dev/null and a new file from = /dev/null.
ParseEntry(e, flags) ==
  [from      |-> IF e.kind = "new" THEN DevNull ELSE e.old,
   to        |-> IF e.kind = "delete" THEN DevNull ELSE e.new,
   new       |-> e.kind = "new",
   deleted   |-> e.kind = "delete",
   renamed   |-> e.kind = "rename" /\ flags,
   chunks    |-> IF e.del + e.add = 0 THEN <<>> ELSE <<[changes |-> HunkChanges(e)]>>,
   additions |-> e.add,
   deletions |-> e.del]

parseDiff(entries, flags) == [j \in 1..Len(entries) |-> ParseEntry(entries[j], flags)]

(***************************************************************************)
(* analyzer: status parser                                                 *)
(***************************************************************************)
EmptyStatus ==
  [modified |-> <<>>, created |-> <<>>, deleted |-> <<>>, renamed |-> <<>>,
   files |-> <<>>]

Arrow == <<" ", "-", ">", " ">>

\* one iteration of the loop over the status lines
ParseStatusLine(st, line) ==
  IF Len(line) < 4 THEN st
  ELSE
    LET idx      == line[1]
        workTree == line[2]
        file     == Trim(Slice(line, 3))
    IN IF Includes(line, Arrow)
       THEN LET parts   == Split(file, Arrow)
                oldPath == parts[1]
                newPath == IF Len(parts) >= 2 THEN parts[2] ELSE <<>>
            IN [st EXCEPT !.renamed = Append(@, [from |-> Trim(oldPath), to |-> Trim(newPath)]),
                          !.files   = Append(@, Trim(newPath))]
       ELSE IF idx = "M" \/ workTree = "M"
       THEN [st EXCEPT !.modified = Append(@, file), !.files = Append(@, file)]
       ELSE IF idx = "A" \/ (idx = "?" /\ workTree = "?")
       THEN [st EXCEPT !.created = Append(@, file), !.files = Append(@, file)]
       ELSE IF idx = "D" \/ workTree = "D"
       THEN [st EXCEPT !.deleted = Append(@, file), !.files = Append(@, file)]
       ELSE IF idx = "R"
       THEN st
       ELSE [st EXCEPT !.files = Append(@, file)]

RECURSIVE ParseStatusLines(_, _)
ParseStatusLines(st, lines) ==
  IF lines = <<>> THEN st
  ELSE ParseStatusLines(ParseStatusLine(st, Head(lines)), Tail(lines))

parsePorcelainStatus(text) ==
  IF Trim(text) = <<>> THEN EmptyStatus
  ELSE ParseStatusLines(EmptyStatus, Split(Trim(text), <<"\n">>))

(***************************************************************************)
(* analyzer: merge of diff records and status lists                        *)
(***************************************************************************)
\* Set.prototype.add on an insertion-ordered set
SetAdd(s, x) == IF Has(s, x) THEN s ELSE Append(s, x)

EmptyChanges ==
  [changeTypes |-> [modified |-> <<>>, created |-> <<>>, deleted |-> <<>>,
                    renamed |-> <<>>],
   allFiles |-> <<>>]

\* one iteration of the loop over the parsed diff
MergeDiffFile(fc, file) ==
  LET filePath == IF file.to # <<>> THEN file.to ELSE file.from
  IN IF file.deleted
     THEN [changeTypes |-> [fc.changeTypes EXCEPT !.deleted = Append(@, filePath)],
           allFiles    |-> SetAdd(fc.allFiles, filePath)]
     ELSE IF file.new
     THEN [changeTypes |-> [fc.changeTypes EXCEPT !.created = Append(@, filePath)],
           allFiles    |-> SetAdd(fc.allFiles, filePath)]
     ELSE IF file.renamed
     THEN [changeTypes |-> [fc.changeTypes EXCEPT
                              !.renamed = Append(@, [from |-> file.from, to |-> file.to])],
           allFiles    |-> SetAdd(fc.allFiles, file.to)]
     ELSE [changeTypes |-> [fc.changeTypes EXCEPT !.modified = Append(@, filePath)],
           allFiles    |-> SetAdd(fc.allFiles, filePath)]

RECURSIVE MergeDiff(_, _)
MergeDiff(fc, parsed) ==
  IF parsed = <<>> THEN fc ELSE MergeDiff(MergeDiffFile(fc, Head(parsed)), Tail(parsed))

\* one iteration of a loop over status.modified / created / deleted
MergeStatusFile(fc, kind, file) ==
  IF Has(fc.allFiles, file) THEN fc
  ELSE [changeTypes |-> [fc.changeTypes EXCEPT ![kind] = Append(@, file)],
        allFiles    |-> Append(fc.allFiles, file)]

RECURSIVE MergeStatusList(_, _, _)
MergeStatusList(fc, kind, files) ==
  IF files = <<>> THEN fc
  ELSE MergeStatusList(MergeStatusFile(fc, kind, Head(files)), kind, Tail(files))

\* one iteration of the loop over status.renamed
MergeStatusRename(fc, rename) ==
  IF \E j \in 1..Len(fc.changeTypes.renamed) : fc.changeTypes.renamed[j].to = rename.to
  THEN fc
  ELSE [changeTypes |-> [fc.changeTypes EXCEPT !.renamed = Append(@, rename)],
        allFiles    |-> SetAdd(fc.allFiles, rename.to)]

RECURSIVE MergeStatusRenames(_, _)
MergeStatusRenames(fc, renames) ==
  IF renames = <<>> THEN fc
  ELSE MergeStatusRenames(MergeStatusRename(fc, Head(renames)), Tail(renames))

\* mutant: the lists are module-level and keep the entries of the last call
extractFileChangesStale(parsedDiff, st) ==
  LET kept == IF "changeTypes" \in DOMAIN lastResult
              THEN [changeTypes |-> lastResult.changeTypes, allFiles |-> lastResult.files]
              ELSE EmptyChanges
      a == MergeDiff(kept, parsedDiff)
      b == MergeStatusList(a, "modified", st.modified)
      c == MergeStatusList(b, "created", st.created)
      d == MergeStatusList(c, "deleted", st.deleted)
  IN MergeStatusRenames(d, st.renamed)

extractFileChanges(parsedDiff, st) ==
  LET a == MergeDiff(EmptyChanges, parsedDiff)
      b == MergeStatusList(a, "modified", st.modified)
      c == MergeStatusList(b, "created", st.created)
      d == MergeStatusList(c, "deleted", st.deleted)
  IN MergeStatusRenames(d, st.renamed)

(***************************************************************************)
(* analyzer: line statistics                                               *)
(***************************************************************************)
\* number of changes of the given type in the chunks of a file record
RECURSIVE ChunkCount(_, _)
ChunkCount(chunks, type) ==
  IF chunks = <<>> THEN 0
  ELSE Count(Head(chunks).changes, type) + ChunkCount(Tail(chunks), type)

\* what one file record adds to `additions`: the hunk lines of type add,
\* then the file-level tally
FileAdditions(file) == ChunkCount(file.chunks, "add") + file.additions
FileDeletions(file) == ChunkCount(file.chunks, "del") + file.deletions

RECURSIVE SumAdditions(_)
SumAdditions(parsed) ==
  IF parsed = <<>> THEN 0 ELSE FileAdditions(Head(parsed)) + SumAdditions(Tail(parsed))

RECURSIVE SumDeletions(_)
SumDeletions(parsed) ==
  IF parsed = <<>> THEN 0 ELSE FileDeletions(Head(parsed)) + SumDeletions(Tail(parsed))

calculateLineStats(parsedDiff) ==
  [additions |-> SumAdditions(parsedDiff),
   deletions |-> SumDeletions(parsedDiff),
   total     |-> SumAdditions(parsedDiff) + SumDeletions(parsedDiff)]

(***************************************************************************)
(* analyzer: file categorisation                                           *)
(***************************************************************************)
\* CONFIG.filePatterns
DocsPatterns ==
  { <<".","m","d">>, <<".","t","x","t">>, <<"r","e","a","d","m","e">>,
    <<"l","i","c","e","n","s","e">>, <<"c","h","a","n","g","e","l","o","g">> }
TestPatterns ==
  { <<".","t","e","s","t",".">>, <<".","s","p","e","c",".">>,
    <<"_","_","t","e","s","t","s","_","_">>, <<"t","e","s","t","/">>,
    <<"t","e","s","t","s","/">> }
ConfigPatterns ==
  { <<".","j","s","o","n">>, <<".","y","m","l">>, <<".","y","a","m","l">>,
    <<".","t","o","m","l">>, <<".","c","o","n","f","i","g",".">>,
    <<"c","o","n","f","i","g","/">>, <<".","e","n","v">> }
StylePatterns ==
  { <<".","c","s","s">>, <<".","s","c","s","s">>, <<".","s","a","s","s">>,
    <<".","l","e","s","s">>, <<".","s","t","y","l","e",".">> }

MatchesAny(fileLower, patterns) == \E p \in patterns : Includes(fileLower, p)

\* mutant: the test patterns are tried before the docs patterns
BucketOfTestFirst(file) ==
  LET fileLower == ToLowerCase(file)
  IN IF MatchesAny(fileLower, TestPatterns) THEN "test"
     ELSE IF MatchesAny(fileLower, DocsPatterns) THEN "docs"
     ELSE IF MatchesAny(fileLower, ConfigPatterns) THEN "config"
     ELSE IF MatchesAny(fileLower, StylePatterns) THEN "style"
     ELSE "source"

\* the bucket one iteration of the categorisation loop pushes the file to
BucketOf(file) ==
  LET fileLower == ToLowerCase(file)
  IN IF MatchesAny(fileLower, DocsPatterns) THEN "docs"
     ELSE IF MatchesAny(fileLower, TestPatterns) THEN "test"
     ELSE IF MatchesAny(fileLower, ConfigPatterns) THEN "config"
     ELSE IF MatchesAny(fileLower, StylePatterns) THEN "style"
     ELSE "source"

EmptyCategories ==
  [docs |-> <<>>, test |-> <<>>, config |-> <<>>, style |-> <<>>, source |-> <<>>]

RECURSIVE CategorizeFrom(_, _)
CategorizeFrom(cats, files) ==
  IF files = <<>> THEN cats
  ELSE CategorizeFrom([cats EXCEPT ![BucketOf(Head(files))] = Append(@, Head(files))],
                      Tail(files))

\* mutant: the final "default to source" step is missing
categorizeFilesNoDefault(files) ==
  [CategorizeFrom(EmptyCategories, files) EXCEPT !.source = <<>>]

categorizeFiles(files) == CategorizeFrom(EmptyCategories, files)

Buckets == {"docs", "test", "config", "style", "source"}

(***************************************************************************)
(* analyzer: commit type                                                   *)
(***************************************************************************)
RECURSIVE Join(_, _)
\* Array.prototype.join
Join(ss, sep) ==
  IF ss = <<>> THEN <<>>
  ELSE IF Len(ss) = 1 THEN ss[1]
  ELSE ss[1] \o sep \o Join(Tail(ss), sep)

determinePrimaryType(categorization, changeTypes) ==
  LET allFiles == ToLowerCase(Join(categorization.source \o categorization.test, <<" ">>))
  IN IF /\ Len(categorization.docs) > 0
        /\ Len(categorization.source) = 0
        /\ Len(categorization.test) = 0
     THEN "docs"
     ELSE IF Len(categorization.test) > 0 /\ Len(categorization.source) = 0
     THEN "test"
     ELSE IF /\ Len(categorization.config) > 0
             /\ Len(categorization.source) = 0
             /\ Len(categorization.test) = 0
             /\ Len(categorization.docs) = 0
     THEN "chore"
     ELSE IF Len(categorization.style) > 0 /\ Len(categorization.source) = 0
     THEN "style"
     ELSE IF Len(changeTypes.created) > 0 /\ Len(changeTypes.modified) = 0
     THEN "feat"
     ELSE IF \/ Includes(allFiles, <<"f","i","x">>)
             \/ Includes(allFiles, <<"b","u","g">>)
             \/ Includes(allFiles, <<"p","a","t","c","h">>)
     THEN "fix"
     ELSE IF Includes(allFiles, <<"r","e","f","a","c","t","o","r">>)
     THEN "refactor"
     ELSE IF Len(categorization.source) > 0
     THEN "feat"
     ELSE "chore"

(***************************************************************************)
(* suggester                                                               *)
(***************************************************************************)
\* the value null where a string is expected
Null == <<"(null)">>

\* mutant: the whole path is taken as the file name
BaseNameWholePath(file) == file

\* file.split('/').pop()
BaseName(file) == LET parts == Split(file, <<"/">>) IN parts[Len(parts)]

\* name.split('.')[0]
BeforeDot(name) == Split(name, <<".">>)[1]

RECURSIVE CommonParts(_, _, _)
\* the loop of findCommonPath from position i of the first path
CommonParts(split, i, acc) ==
  IF i > Len(split[1]) - 1 THEN acc
  ELSE IF \A j \in 1..Len(split) : Len(split[j]) >= i /\ split[j][i] = split[1][i]
       THEN CommonParts(split, i + 1, Append(acc, split[1][i]))
       ELSE acc

findCommonPath(files) ==
  IF Len(files) = 0 THEN Null
  ELSE IF Len(files) = 1
  THEN LET parts  == Split(files[1], <<"/">>)
           joined == Join(SubSeq(parts, 1, Len(parts) - 1), <<"/">>)
       IN IF joined # <<>> THEN joined ELSE <<".">>
  ELSE LET split == [j \in 1..Len(files) |-> Split(files[j], <<"/">>)]
           commonParts == CommonParts(split, 1, <<>>)
       IN IF Len(commonParts) > 0 THEN Join(commonParts, <<"/">>) ELSE Null

\* Array.prototype.filter(p => p) on strings
NonEmpty(ss) ==
  LET ks == SelectIdx([j \in 1..Len(ss) |-> ss[j] # <<>>], 1, Len(ss))
  IN [j \in 1..Len(ks) |-> ss[ks[j]]]

\* mutant: no scope is taken from the categorisation
ScopeByCategoryNone(files, categorization) == Null

\* the scope of files that share no directory: the bucket all of them are in
ScopeByCategory(files, categorization) ==
  IF Len(categorization.docs) = Len(files) THEN <<"d","o","c","s">>
  ELSE IF Len(categorization.test) = Len(files) THEN <<"t","e","s","t","s">>
  ELSE IF Len(categorization.config) = Len(files) THEN <<"c","o","n","f","i","g">>
  ELSE Null

determineScope(files, categorization) ==
  IF Len(files) = 1
  THEN ToLowerCase(BeforeDot(BaseName(files[1])))
  ELSE LET commonPath == findCommonPath(files)
           parts == NonEmpty(Split(commonPath, <<"/">>))
       IN IF commonPath # Null /\ commonPath # <<>> /\ commonPath # <<".">>
             /\ Len(parts) > 0
          THEN parts[Len(parts)]
          ELSE ScopeByCategory(files, categorization)

WordSeparators == {"-", "_", " ", "\n"}

RECURSIVE Tokens(_, _, _)
\* name.replace(/([A-Z])/g, ' $1').split(/[-_\s]+/): the pieces of name cut
\* at separators and before capital letters (empty pieces are dropped by
\* the length filter that follows)
Tokens(name, cur, acc) ==
  IF name = <<>> THEN Append(acc, cur)
  ELSE LET c == Head(name)
       IN IF c \in WordSeparators THEN Tokens(Tail(name), <<>>, Append(acc, cur))
          ELSE IF \E i \in 1..26 : Upper[i] = c
               THEN Tokens(Tail(name), <<c>>, Append(acc, cur))
               ELSE Tokens(Tail(name), Append(cur, c), acc)

WordsOfName(name) ==
  LET toks == Tokens(name, <<>>, <<>>)
      ks   == SelectIdx([j \in 1..Len(toks) |-> Len(toks[j]) > 2], 1, Len(toks))
  IN [j \in 1..Len(ks) |-> ToLowerCase(toks[ks[j]])]

inferFeatureFromFiles(files) ==
  IF Len(files) = 0 THEN Null
  ELSE LET words == Flatten([j \in 1..Len(files) |->
                               WordsOfName(BeforeDot(BaseName(files[j])))])
           best  == {i \in 1..Len(words) :
                       /\ Count(words, words[i]) > 1
                       /\ \A j \in 1..Len(words) : Count(words, words[j]) <= Count(words, words[i])}
       IN IF best = {} THEN Null
          ELSE words[CHOOSE i \in best : \A j \in best : i <= j]

\* generateDescription after the single-file special case
GeneralDescription(categorization, changeTypes, files) ==
  IF /\ Len(categorization.docs) > 0
          /\ Len(categorization.source) = 0
          /\ Len(categorization.test) = 0
  THEN "update documentation"
  ELSE IF Len(categorization.test) > 0 /\ Len(categorization.source) = 0
  THEN IF Len(changeTypes.created) > 0 THEN "add tests" ELSE "update tests"
  ELSE IF /\ Len(categorization.config) > 0
          /\ Len(categorization.source) = 0
          /\ Len(categorization.test) = 0
  THEN "update configuration"
  ELSE IF Len(categorization.style) > 0 /\ Len(categorization.source) = 0
  THEN "update styles"
  ELSE IF Len(categorization.source) > 0
          /\ Len(changeTypes.created) > Len(changeTypes.modified)
  THEN IF inferFeatureFromFiles(changeTypes.created) # Null
       THEN "add " \o Str(inferFeatureFromFiles(changeTypes.created))
       ELSE "add new features"
  ELSE IF Len(categorization.source) > 0 /\ Len(changeTypes.modified) > 0
  THEN IF inferFeatureFromFiles(changeTypes.modified) # Null
       THEN "update " \o Str(inferFeatureFromFiles(changeTypes.modified))
       ELSE "update implementation"
  ELSE IF Len(categorization.source) > 0 /\ Len(changeTypes.deleted) > 0
  THEN "remove deprecated code"
  ELSE IF Len(files) <= 3 THEN "update project files"
  ELSE "update multiple components"

\* mutant: the single-file special case is missing
generateDescriptionNoSingle(categorization, changeTypes, files) ==
  GeneralDescription(categorization, changeTypes, files)

generateDescription(categorization, changeTypes, files) ==
  IF Len(files) = 1 /\ Has(changeTypes.created, files[1])
  THEN "add " \o Str(BaseName(files[1]))
  ELSE IF Len(files) = 1 /\ Has(changeTypes.deleted, files[1])
  THEN "remove " \o Str(BaseName(files[1]))
  ELSE IF Len(files) = 1 /\ Has(changeTypes.modified, files[1])
  THEN "update " \o Str(BaseName(files[1]))
  ELSE GeneralDescription(categorization, changeTypes, files)

\* the commit type, scope and description generateCommitMessage combines
SuggestedType(analysis) ==
  determinePrimaryType(analysis.categorization, analysis.changeTypes)
SuggestedScope(analysis) == determineScope(analysis.files, analysis.categorization)
SuggestedDescription(analysis) ==
  generateDescription(analysis.categorization, analysis.changeTypes, analysis.files)

\* "null" stands for the null returned when there are no changes
generateCommitMessage(analysis) ==
  IF ~analysis.hasChanges THEN "null"
  ELSE LET scope == SuggestedScope(analysis)
       IN SuggestedType(analysis)
            \o (IF scope # Null /\ scope # <<>> THEN "(" \o Str(scope) \o ")" ELSE "")
            \o ": " \o SuggestedDescription(analysis)

(***************************************************************************)
(* analyzer: summary line                                                  *)
(***************************************************************************)
RECURSIVE JoinStr(_, _)
\* Array.prototype.join on strings
JoinStr(ss, sep) ==
  IF ss = <<>> THEN ""
  ELSE IF Len(ss) = 1 THEN ss[1]
  ELSE ss[1] \o sep \o JoinStr(Tail(ss), sep)

SummaryParts(summary) ==
  (IF summary.created > 0 THEN <<ToString(summary.created) \o " created">> ELSE <<>>)
  \o (IF summary.modified > 0 THEN <<ToString(summary.modified) \o " modified">> ELSE <<>>)
  \o (IF summary.deleted > 0 THEN <<ToString(summary.deleted) \o " deleted">> ELSE <<>>)
  \o (IF summary.renamed > 0 THEN <<ToString(summary.renamed) \o " renamed">> ELSE <<>>)

LinesParts(summary) ==
  (IF summary.linesAdded > 0 THEN <<"+" \o ToString(summary.linesAdded)>> ELSE <<>>)
  \o (IF summary.linesDeleted > 0 THEN <<"-" \o ToString(summary.linesDeleted)>> ELSE <<>>)

getChangeSummary(analysis) ==
  IF ~analysis.hasChanges THEN analysis.message
  ELSE ToString(analysis.summary.totalFiles) \o " file(s) changed: "
         \o JoinStr(SummaryParts(analysis.summary), ", ")
         \o (IF Len(LinesParts(analysis.summary)) > 0
             THEN " (" \o JoinStr(LinesParts(analysis.summary), ", ") \o ")"
             ELSE "")

(***************************************************************************)
(* analyzeChanges: results                                                 *)
(***************************************************************************)
NoResult == [pending |-> TRUE]

NotARepoMessage ==
  "Not a git repository. Please run this command inside a git repository."

AnalysisScope(m) ==
  IF m = "staged" THEN "staged changes"
  ELSE IF m = "unstaged" THEN "unstaged changes"
  ELSE "all changes since last commit"

\* the value analyzeChanges returns once the diff text is known (a HEAD exists)
HeadResult(m, diffText, statusText, st, flags) ==
  LET parsedDiff == parseDiff(diffText, flags)
  IN IF Len(parsedDiff) = 0 /\ Trim(statusText) = <<>>
     THEN [hasChanges    |-> FALSE,
           message       |-> "No changes detected since the last commit",
           mode          |-> m,
           analysisScope |-> AnalysisScope(m)]
     ELSE LET fileChanges == extractFileChanges(parsedDiff, st)
              lineStats   == calculateLineStats(parsedDiff)
          IN [hasChanges     |-> TRUE,
              mode           |-> m,
              analysisScope  |-> AnalysisScope(m),
              changeTypes    |-> fileChanges.changeTypes,
              files          |-> fileChanges.allFiles,
              categorization |-> categorizeFiles(fileChanges.allFiles),
              diff           |-> diffText,
              lineStats      |-> lineStats,
              parsedDiff     |-> parsedDiff,
              summary        |->
                [totalFiles   |-> Len(fileChanges.allFiles),
                 modified     |-> Len(fileChanges.changeTypes.modified),
                 created      |-> Len(fileChanges.changeTypes.created),
                 deleted      |-> Len(fileChanges.changeTypes.deleted),
                 renamed      |-> Len(fileChanges.changeTypes.renamed),
                 linesAdded   |-> lineStats.additions,
                 linesDeleted |-> lineStats.deletions,
                 linesChanged |-> lineStats.total]]

\* analyzeFirstCommit when the status lists no file
FirstCommitEmpty ==
  [hasChanges    |-> FALSE,
   message       |-> "No changes detected in the repository",
   isFirstCommit |-> TRUE,
   analysisScope |-> "first commit (no HEAD)"]

\* mutant: the kinds are taken from the status characters
FirstCommitChangeTypesByStatus(st) ==
  [modified |-> st.modified, created |-> st.created,
   deleted |-> st.deleted, renamed |-> <<>>]

\* changeTypes of a first commit: all files are "created"
FirstCommitChangeTypes(st) ==
  [modified |-> <<>>, created |-> st.files, deleted |-> <<>>, renamed |-> <<>>]

\* analyzeFirstCommit once the working-tree diff is known
FirstCommitResult(diffText, st, flags) ==
  LET allFiles   == st.files
      parsedDiff == parseDiff(diffText, flags)
      lineStats  == calculateLineStats(parsedDiff)
  IN [hasChanges     |-> TRUE,
      isFirstCommit  |-> TRUE,
      mode           |-> "all",
      analysisScope  |-> "first commit (no HEAD)",
      changeTypes    |-> FirstCommitChangeTypes(st),
      files          |-> allFiles,
      categorization |-> categorizeFiles(allFiles),
      diff           |-> diffText,
      lineStats      |-> lineStats,
      parsedDiff     |-> parsedDiff,
      summary        |->
        [totalFiles   |-> Len(allFiles),
         modified     |-> 0,
         created      |-> Len(allFiles),
         deleted      |-> 0,
         renamed      |-> 0,
         linesAdded   |-> lineStats.additions,
         linesDeleted |-> lineStats.deletions,
         linesChanged |-> lineStats.total]]

\* the value of a field of the results object that is still null
NullField == [isNull |-> TRUE]

\* const results = { add: null, commit: null, push: null, errors: [] }
NoResults == [add |-> NullField, commit |-> NullField, push |-> NullField, errors |-> <<>>]

\* no command has run yet
NoRun ==
  /\ log = <<>>
  /\ action = "none"
  /\ finalMessage = ""
  /\ results = NoResults
  /\ shownError = ""
  /\ pushError = <<>>
  /\ startHead = <<>>
  /\ startIndex = <<>>
  /\ startWork = <<>>

(***************************************************************************)
(* Initial states: any state of one of the repositories                    *)
(***************************************************************************)
Init ==
  /\ NoRun
  /\ \E w \in 1..Len(Worlds) :
       /\ paths = Worlds[w].paths
       /\ \/ /\ isRepo = TRUE
             /\ hasHead \in BOOLEAN
             /\ head = IF hasHead THEN Worlds[w].tree
                       ELSE [k \in 1..Len(Worlds[w].paths) |-> 0]
             /\ index \in [1..Len(Worlds[w].paths) -> Contents]
             /\ work \in [1..Len(Worlds[w].paths) -> Contents]
          \/ /\ isRepo = FALSE
             /\ hasHead = FALSE
             /\ head = [k \in 1..Len(Worlds[w].paths) |-> 0]
             /\ index = head
             /\ work \in [1..Len(Worlds[w].paths) -> Contents]
  /\ flagsRenames \in BOOLEAN
  /\ pc = "idle"
  /\ mode = "all"
  /\ calls = 0
  /\ seenHead = FALSE
  /\ statusOutput = <<>>
  /\ status = EmptyStatus
  /\ stagedDiff = <<>>
  /\ diffOutput = <<>>
  /\ result = NoResult
  /\ message = "null"
  /\ summaryLine = ""
  /\ lastMode = "none"
  /\ lastResult = NoResult
  /\ lastMessage = "null"

(***************************************************************************)
(* analyzeChanges, one action per query to git                             *)
(***************************************************************************)
\* the message of a git query that could not be run to its end
E_query == <<"k","i","l","l","e","d">>

\* analyzeChanges(repoPath, {mode: m}) is called
Call(m) ==
  /\ pc \in {"idle", "shown", "failed"}
  /\ calls < MaxCalls
  /\ pc' = "checkIsRepo"
  /\ mode' = m
  /\ calls' = calls + 1
  /\ lastMode' = IF pc = "idle" THEN "none" ELSE mode
  /\ lastResult' = result
  /\ lastMessage' = message
  /\ seenHead' = FALSE
  /\ statusOutput' = <<>>
  /\ status' = EmptyStatus
  /\ stagedDiff' = <<>>
  /\ diffOutput' = <<>>
  /\ result' = NoResult
  /\ message' = "null"
  /\ summaryLine' = ""
  /\ log' = <<>>
  /\ UNCHANGED <<repoVars, pushVars>>

\* await git.checkIsRepo()
CheckIsRepo ==
  /\ pc = "checkIsRepo"
  /\ log' = Append(log, "checkIsRepo")
  /\ UNCHANGED pushVars
  /\ IF isRepo
     THEN /\ pc' = "checkHasHead"
          /\ result' = result
     ELSE /\ pc' = "failed"
          /\ result' = [error |-> "Failed to analyze git changes: " \o NotARepoMessage]
  /\ UNCHANGED <<repoVars, mode, calls, seenHead, statusOutput, status, stagedDiff,
                 diffOutput, message, summaryLine, lastMode, lastResult, lastMessage>>

\* await checkHasHead(git): git rev-parse HEAD
CheckHasHead ==
  /\ pc = "checkHasHead"
  /\ log' = Append(log, "rev-parse HEAD")
  /\ UNCHANGED pushVars
  /\ seenHead' = hasHead
  /\ pc' = "status"
  /\ UNCHANGED <<repoVars, mode, calls, statusOutput, status, stagedDiff, diffOutput,
                 result, message, summaryLine, lastMode, lastResult, lastMessage>>

\* await git.raw(['status', '--porcelain']), then the code up to the next query
Status ==
  /\ pc = "status"
  /\ log' = Append(log, "status --porcelain")
  /\ UNCHANGED pushVars
  /\ statusOutput' = GitStatus(head, index, work)
  /\ status' = parsePorcelainStatus(statusOutput')
  /\ IF ~seenHead
     THEN IF Len(status'.files) = 0
          THEN pc' = "done" /\ result' = FirstCommitEmpty
          ELSE pc' = "firstCommitDiff" /\ result' = result
     ELSE pc' = "diff" /\ result' = result
  /\ UNCHANGED <<repoVars, mode, calls, seenHead, stagedDiff, diffOutput,
                 message, summaryLine, lastMode, lastResult, lastMessage>>

\* analyzeFirstCommit: await git.diff()
FirstCommitDiff ==
  /\ pc = "firstCommitDiff"
  /\ log' = Append(log, "diff")
  /\ UNCHANGED pushVars
  /\ diffOutput' = GitDiffPlain(index, work)
  /\ result' = FirstCommitResult(diffOutput', status, flagsRenames)
  /\ pc' = "done"
  /\ UNCHANGED <<repoVars, mode, calls, seenHead, statusOutput, status, stagedDiff,
                 message, summaryLine, lastMode, lastResult, lastMessage>>

\* case 'staged': await git.diff(['--cached', 'HEAD'])
DiffStaged ==
  /\ pc = "diff"
  /\ log' = Append(log, "diff --cached HEAD")
  /\ UNCHANGED pushVars
  /\ mode = "staged"
  /\ diffOutput' = GitDiffCached(head, index)
  /\ result' = HeadResult(mode, diffOutput', statusOutput, status, flagsRenames)
  /\ pc' = "done"
  /\ UNCHANGED <<repoVars, mode, calls, seenHead, statusOutput, status, stagedDiff,
                 message, summaryLine, lastMode, lastResult, lastMessage>>

\* case 'unstaged': await git.diff(['HEAD'])
DiffUnstaged ==
  /\ pc = "diff"
  /\ log' = Append(log, "diff HEAD")
  /\ UNCHANGED pushVars
  /\ mode = "unstaged"
  /\ diffOutput' = GitDiffHead(head, index, work)
  /\ result' = HeadResult(mode, diffOutput', statusOutput, status, flagsRenames)
  /\ pc' = "done"
  /\ UNCHANGED <<repoVars, mode, calls, seenHead, statusOutput, status, stagedDiff,
                 message, summaryLine, lastMode, lastResult, lastMessage>>

\* case 'all': const stagedDiff = await git.diff(['--cached', 'HEAD'])
DiffAllStaged ==
  /\ pc = "diff"
  /\ log' = Append(log, "diff --cached HEAD")
  /\ UNCHANGED pushVars
  /\ mode \notin {"staged", "unstaged"}
  /\ stagedDiff' = GitDiffCached(head, index)
  /\ pc' = "diff2"
  /\ UNCHANGED <<repoVars, mode, calls, seenHead, statusOutput, status, diffOutput,
                 result, message, summaryLine, lastMode, lastResult, lastMessage>>

\* case 'all': const unstagedDiff = await git.diff(['HEAD']);
\* diffOutput = stagedDiff + '\n' + unstagedDiff
DiffAllUnstaged ==
  /\ pc = "diff2"
  /\ log' = Append(log, "diff HEAD")
  /\ UNCHANGED pushVars
  /\ diffOutput' = stagedDiff \o GitDiffHead(head, index, work)
  /\ result' = HeadResult(mode, diffOutput', statusOutput, status, flagsRenames)
  /\ pc' = "done"
  /\ UNCHANGED <<repoVars, mode, calls, seenHead, statusOutput, status, stagedDiff,
                 message, summaryLine, lastMode, lastResult, lastMessage>>

\* the query analyzeChanges issues next
NextQuery ==
  CASE pc = "status" -> "status --porcelain"
    [] pc = "firstCommitDiff" -> "diff"
    [] pc = "diff" -> IF mode = "unstaged" THEN "diff HEAD" ELSE "diff --cached HEAD"
    [] pc = "diff2" -> "diff HEAD"

\* the status query or a diff query is rejected: the catch block of
\* analyzeChanges throws the wrapped error
QueryFails ==
  /\ pc \in {"status", "firstCommitDiff", "diff", "diff2"}
  /\ log' = Append(log, NextQuery)
  /\ pc' = "failed"
  /\ result' = [error |-> "Failed to analyze git changes: " \o Str(E_query)]
  /\ UNCHANGED <<repoVars, mode, calls, seenHead, statusOutput, status, stagedDiff,
                 diffOutput, message, summaryLine, lastMode, lastResult, lastMessage,
                 pushVars>>

\* the caller shows the summary line and the suggested message
Present ==
  /\ pc = "done"
  /\ UNCHANGED <<log, pushVars>>
  /\ summaryLine' = getChangeSummary(result)
  /\ message' = generateCommitMessage(result)
  /\ pc' = "shown"
  /\ UNCHANGED <<repoVars, mode, calls, seenHead, statusOutput, status, stagedDiff,
                 diffOutput, result, lastMode, lastResult, lastMessage>>

Next ==
  \/ \E m \in Modes : Call(m)
  \/ CheckIsRepo
  \/ CheckHasHead
  \/ Status
  \/ FirstCommitDiff
  \/ DiffStaged
  \/ DiffUnstaged
  \/ DiffAllStaged
  \/ DiffAllUnstaged
  \/ QueryFails
  \/ Present

Spec == Init /\ [][Next]_vars

(***************************************************************************)
(* The push command: runSmartGitPush and executeGitWorkflow                *)
(***************************************************************************)
\* what git.status() can report about an operation in progress
StatusAnswers ==
  {[conflicted |-> c, isInMerge |-> m, isRebasing |-> r] :
     c \in 0..1, m \in BOOLEAN, r \in BOOLEAN}

\* the message git gives outside a repository
GitNotARepoError == "fatal: not a git repository (or any of the parent directories): .git"

\* the message of a failing add or commit
GitError == "fatal: unable to write the object database"

\* the words the catch block looks for in the message of a failed push
NoUpstreamWords  == <<"n","o"," ","u","p","s","t","r","e","a","m">>
SetUpstreamWords == <<"s","e","t","-","u","p","s","t","r","e","a","m">>

\* the messages a rejected push can carry
E_noUpstream  == <<"h","a","s"," ">> \o NoUpstreamWords
E_setUpstream == <<"-","-">> \o SetUpstreamWords
E_denied      == <<"d","e","n","i","e","d">>
PushErrors == {E_noUpstream, E_setUpstream, E_denied}

\* status.current
CurrentBranch == "main"

\* the texts the user can type at the edit prompt
EditInputs == {<<" ">>, <<"f","i","x">>, <<" ","f","i","x"," ">>}

\* checkForConflicts: the value returned for a status answer
checkForConflicts(st) ==
  IF st.conflicted > 0
  THEN [hasConflicts |-> TRUE, type |-> "merge",
        message |-> "You have unresolved merge conflicts. Please resolve them before committing."]
  ELSE IF st.isInMerge
  THEN [hasConflicts |-> TRUE, type |-> "merge",
        message |-> "Git merge in progress. Complete or abort the merge before using SmartGit."]
  ELSE IF st.isRebasing
  THEN [hasConflicts |-> TRUE, type |-> "rebase",
        message |-> "Git rebase in progress. Complete or abort the rebase before using SmartGit."]
  ELSE [hasConflicts |-> FALSE, message |-> "No conflicts detected."]

\* smartgit push [--staged | --unstaged]: the command starts
PushCommand(m) ==
  /\ pc = "idle"
  /\ pc' = "conflicts"
  /\ mode' = m
  /\ startHead' = head
  /\ startIndex' = index
  /\ startWork' = work
  /\ UNCHANGED <<repoVars, calls, seenHead, statusOutput, status, stagedDiff, diffOutput,
                 result, message, summaryLine, lastMode, lastResult, lastMessage, log,
                 action, finalMessage, results, shownError, pushError>>

\* Step 1: const conflictCheck = await checkForConflicts()
CheckForConflicts ==
  /\ pc = "conflicts"
  /\ log' = Append(log, "status")
  /\ IF ~isRepo
     THEN /\ pc' = "exitThrew"
          /\ shownError' = "Failed to check for conflicts: " \o GitNotARepoError
          /\ calls' = calls
     ELSE \/ \E st \in StatusAnswers :
               IF checkForConflicts(st).hasConflicts
               THEN /\ pc' = "exitConflict"
                    /\ shownError' = checkForConflicts(st).message
                    /\ calls' = calls
               ELSE /\ pc' = "checkIsRepo"
                    /\ shownError' = shownError
                    /\ calls' = calls + 1
          \/ /\ pc' = "exitThrew"
             /\ shownError' = "Failed to check for conflicts: " \o Str(E_query)
             /\ calls' = calls
  /\ UNCHANGED <<repoVars, mode, seenHead, statusOutput, status, stagedDiff, diffOutput,
                 result, message, summaryLine, lastMode, lastResult, lastMessage,
                 action, finalMessage, results, pushError, startHead, startIndex, startWork>>

\* Step 2 threw: the command reports the error of analyzeChanges and ends
AnalysisFailed ==
  /\ pc = "failed"
  /\ pc' = "exitThrew"
  /\ shownError' = result.error
  /\ UNCHANGED <<repoVars, mode, calls, seenHead, statusOutput, status, stagedDiff,
                 diffOutput, result, message, summaryLine, lastMode, lastResult,
                 lastMessage, log, action, finalMessage, results, pushError, startHead,
                 startIndex, startWork>>

\* Steps 2 to 4: the analysis has returned; no changes ends the run, else
\* the summary is displayed and the message is generated
ShowAnalysis ==
  /\ pc = "done"
  /\ IF ~result.hasChanges
     THEN /\ pc' = "exitNoChanges"
          /\ UNCHANGED <<summaryLine, message, shownError>>
     ELSE /\ summaryLine' = getChangeSummary(result)
          /\ message' = generateCommitMessage(result)
          /\ IF message' = "null"
             THEN pc' = "exitThrew" /\ shownError' = "Failed to generate commit message"
             ELSE pc' = "branchInfo" /\ shownError' = shownError
  /\ UNCHANGED <<repoVars, mode, calls, seenHead, statusOutput, status, stagedDiff,
                 diffOutput, result, lastMode, lastResult, lastMessage, log,
                 action, finalMessage, results, pushError, startHead, startIndex, startWork>>

\* Step 5: const branchInfo = await getBranchInfo()
GetBranchInfo ==
  /\ pc = "branchInfo"
  /\ \/ /\ log' = log \o <<"status", "getRemotes">>
        /\ pc' = "prompt"
        /\ shownError' = shownError
     \/ /\ log' \in {Append(log, "status"), log \o <<"status", "getRemotes">>}
        /\ pc' = "exitThrew"
        /\ shownError' = "Failed to get branch info: " \o Str(E_query)
  /\ UNCHANGED <<repoVars, mode, calls, seenHead, statusOutput, status, stagedDiff,
                 diffOutput, result, message, summaryLine, lastMode, lastResult,
                 lastMessage, action, finalMessage, results, pushError, startHead,
                 startIndex, startWork>>

\* mutant: every answer other than 'edit' goes on to the workflow
AfterPromptNoCancel(a) == IF a = "edit" THEN "edit" ELSE "add"

\* where the run continues after the answer to the confirmation prompt
AfterPrompt(a) ==
  IF a = "cancel" THEN "exitCancelled"
  ELSE IF a = "edit" THEN "edit"
  ELSE "add"

\* Step 6: the user answers 'use', 'edit' or 'cancel'
Prompt ==
  /\ pc = "prompt"
  /\ \E a \in {"use", "edit", "cancel"} :
       /\ action' = a
       /\ pc' = AfterPrompt(a)
  /\ finalMessage' = message
  /\ UNCHANGED <<repoVars, mode, calls, seenHead, statusOutput, status, stagedDiff,
                 diffOutput, result, message, summaryLine, lastMode, lastResult,
                 lastMessage, log, results, shownError, pushError, startHead, startIndex, startWork>>

\* the user submits an edited message; blank input is rejected by validate
EditMessage ==
  /\ pc = "edit"
  /\ \E input \in EditInputs :
       /\ Len(Trim(input)) > 0
       /\ finalMessage' = Str(Trim(input))
  /\ pc' = "add"
  /\ UNCHANGED <<repoVars, mode, calls, seenHead, statusOutput, status, stagedDiff,
                 diffOutput, result, message, summaryLine, lastMode, lastResult,
                 lastMessage, log, action, results, shownError, pushError, startHead, startIndex, startWork>>

\* mutant: the workflow goes on to the next step whatever the outcome
AfterStepAlways(ok, next) == next

\* where executeGitWorkflow continues after the add or the commit step:
\* a failed step throws
AfterStep(ok, next) == IF ok THEN next ELSE "exitThrew"

\* executeGitWorkflow, Step 1: await git.add('.')
GitAdd ==
  /\ pc = "add"
  /\ log' = Append(log, "add .")
  /\ \E ok \in BOOLEAN :
       /\ pc' = AfterStep(ok, "commit")
       /\ IF ok
          THEN /\ index' = work
               /\ results' = [results EXCEPT !.add =
                    [success |-> TRUE, message |-> "Successfully staged all changes"]]
               /\ shownError' = shownError
          ELSE /\ index' = index
               /\ results' = [results EXCEPT !.errors =
                    Append(@, "Failed to stage changes: " \o GitError)]
               /\ shownError' = "Failed to stage changes: " \o GitError
  /\ UNCHANGED <<paths, isRepo, hasHead, head, work, flagsRenames, mode, calls, seenHead,
                 statusOutput, status, stagedDiff, diffOutput, result, message,
                 summaryLine, lastMode, lastResult, lastMessage, action, finalMessage,
                 pushError, startHead, startIndex, startWork>>

\* commitResult.commit of a commit that was created
CommitHash == "abc1234"

\* executeGitWorkflow, Step 2: await git.commit(commitMessage); with nothing
\* staged git creates no commit and the call returns an empty hash
GitCommit ==
  /\ pc = "commit"
  /\ log' = Append(log, "commit")
  /\ \E ok \in BOOLEAN :
       /\ pc' = AfterStep(ok, "remotes")
       /\ IF ok
          THEN /\ head' = index
               /\ hasHead' = (hasHead \/ index # head)
               /\ results' = [results EXCEPT !.commit =
                    [success |-> TRUE, message |-> "Successfully created commit",
                     hash |-> IF index = head THEN "" ELSE CommitHash,
                     summary |-> finalMessage]]
               /\ shownError' = shownError
          ELSE /\ head' = head
               /\ hasHead' = hasHead
               /\ results' = [results EXCEPT !.errors =
                    Append(@, "Failed to commit changes: " \o GitError)]
               /\ shownError' = "Failed to commit changes: " \o GitError
  /\ UNCHANGED <<paths, isRepo, index, work, flagsRenames, mode, calls, seenHead,
                 statusOutput, status, stagedDiff, diffOutput, result, message,
                 summaryLine, lastMode, lastResult, lastMessage, action, finalMessage,
                 pushError, startHead, startIndex, startWork>>

\* results.push after a successful push
PushSuccess(text) ==
  [success |-> TRUE, message |-> text \o CurrentBranch, branch |-> CurrentBranch]

\* mutant: a failed push is recorded without an entry in errors
PushFailureNoEntry(res, text, errorMsg) ==
  [res EXCEPT !.push = [success |-> FALSE, message |-> text, error |-> Str(errorMsg)]]

\* the results object after a failed push: an entry in errors and results.push
PushFailure(res, text, errorMsg) ==
  [res EXCEPT !.errors = Append(@, "Failed to push: " \o Str(errorMsg)),
              !.push = [success |-> FALSE, message |-> text, error |-> Str(errorMsg)]]

\* mutant: every failure of the push stage is taken for a missing upstream
IsUpstreamIssueAlways(errorMsg) == TRUE

\* the catch block's test for a missing upstream
IsUpstreamIssue(errorMsg) ==
  Includes(errorMsg, NoUpstreamWords) \/ Includes(errorMsg, SetUpstreamWords)

\* the catch block of the push stage for the error of a query other than
\* the push: the message names no upstream, so the failure is recorded
CaughtQueryFailure(res) ==
  IF IsUpstreamIssue(E_query) THEN res
  ELSE PushFailure(res, "Commit created but push failed.", E_query)

\* Step 3: git.status() and git.getRemotes(); without a remote the push is
\* skipped; a query that fails is caught like a failed push
GetRemotes ==
  /\ pc = "remotes"
  /\ \/ /\ log' = log \o <<"status", "getRemotes">>
        /\ pushError' = pushError
        /\ \E remotes \in 0..1 :
             IF remotes = 0
             THEN /\ results' = [results EXCEPT !.push =
                       [success |-> FALSE, skipped |-> TRUE,
                        message |-> "No remote repository configured. Commit created but not pushed."]]
                  /\ pc' = "exitDone"
             ELSE /\ results' = results
                  /\ pc' = "push"
     \/ /\ log' \in {Append(log, "status"), log \o <<"status", "getRemotes">>}
        /\ pushError' = E_query
        /\ results' = CaughtQueryFailure(results)
        /\ pc' = IF IsUpstreamIssue(E_query) THEN "pushUpstream" ELSE "exitDone"
  /\ UNCHANGED <<repoVars, mode, calls, seenHead, statusOutput, status, stagedDiff,
                 diffOutput, result, message, summaryLine, lastMode, lastResult,
                 lastMessage, action, finalMessage, shownError, startHead, startIndex,
                 startWork>>

\* await git.push('origin', currentBranch) and the catch block up to its next query
GitPush ==
  /\ pc = "push"
  /\ log' = Append(log, "push origin")
  /\ \/ /\ results' = [results EXCEPT !.push =
                 PushSuccess("Successfully pushed to origin/")]
        /\ pushError' = pushError
        /\ pc' = "exitDone"
     \/ \E errorMsg \in PushErrors :
          /\ pushError' = errorMsg
          /\ IF IsUpstreamIssue(errorMsg)
             THEN /\ results' = results
                  /\ pc' = "pushUpstream"
             ELSE /\ results' = PushFailure(results, "Commit created but push failed.", errorMsg)
                  /\ pc' = "exitDone"
  /\ UNCHANGED <<repoVars, mode, calls, seenHead, statusOutput, status, stagedDiff,
                 diffOutput, result, message, summaryLine, lastMode, lastResult,
                 lastMessage, action, finalMessage, shownError, startHead, startIndex,
                 startWork>>

\* the retry: git.status(), then await git.push(['-u', 'origin', currentBranch]);
\* the status query is awaited in the catch block outside any try, so its
\* failure leaves executeGitWorkflow as an exception
GitPushUpstream ==
  /\ pc = "pushUpstream"
  /\ \/ /\ log' = log \o <<"status", "push -u origin">>
        /\ \/ results' = [results EXCEPT !.push =
                   PushSuccess("Successfully pushed and set upstream to origin/")]
           \/ \E upstreamError \in PushErrors :
                results' = PushFailure(results,
                  "Commit created but push failed. You may need to set upstream or check authentication.",
                  upstreamError)
        /\ pc' = "exitDone"
        /\ shownError' = shownError
     \/ /\ log' = Append(log, "status")
        /\ results' = results
        /\ pc' = "exitThrew"
        /\ shownError' = Str(E_query)
  /\ UNCHANGED <<repoVars, mode, calls, seenHead, statusOutput, status, stagedDiff,
                 diffOutput, result, message, summaryLine, lastMode, lastResult,
                 lastMessage, action, finalMessage, pushError, startHead, startIndex,
                 startWork>>

NextPush ==
  \/ \E m \in Modes : PushCommand(m)
  \/ CheckForConflicts
  \/ CheckIsRepo
  \/ CheckHasHead
  \/ Status
  \/ FirstCommitDiff
  \/ DiffStaged
  \/ DiffUnstaged
  \/ DiffAllStaged
  \/ DiffAllUnstaged
  \/ QueryFails
  \/ AnalysisFailed
  \/ ShowAnalysis
  \/ GetBranchInfo
  \/ Prompt
  \/ EditMessage
  \/ GitAdd
  \/ GitCommit
  \/ GetRemotes
  \/ GitPush
  \/ GitPushUpstream

SpecPush == Init /\ [][NextPush]_vars

(***************************************************************************)
(* getChangeSummary on its own: the summary line of any summary record     *)
(***************************************************************************)
\* largest per-kind count of the summaries tried
MaxKindCount == 2

\* line counts of the summaries tried
LineCounts == {0, 15, 42}

SummaryInputs ==
  {[hasChanges |-> TRUE,
    summary |-> [totalFiles |-> t, modified |-> m, created |-> c, deleted |-> d,
                 renamed |-> r, linesAdded |-> a, linesDeleted |-> l]] :
     t \in 0..(MaxKindCount + 1), m \in 0..MaxKindCount, c \in 0..MaxKindCount,
     d \in 0..MaxKindCount, r \in 0..MaxKindCount, a \in LineCounts, l \in LineCounts}

InitSummary ==
  /\ NoRun
  /\ paths = Worlds[1].paths
  /\ isRepo = TRUE
  /\ hasHead = TRUE
  /\ head = Worlds[1].tree
  /\ index = head
  /\ work = head
  /\ flagsRenames = FALSE
  /\ pc = "done"
  /\ mode = "all"
  /\ calls = 1
  /\ seenHead = TRUE
  /\ statusOutput = <<>>
  /\ status = EmptyStatus
  /\ stagedDiff = <<>>
  /\ diffOutput = <<>>
  /\ result \in SummaryInputs
  /\ message = "null"
  /\ summaryLine = ""
  /\ lastMode = "none"
  /\ lastResult = NoResult
  /\ lastMessage = "null"

\* displayChanges: the summary line of the analysis is printed
DisplayChanges ==
  /\ pc = "done"
  /\ UNCHANGED <<log, pushVars>>
  /\ summaryLine' = getChangeSummary(result)
  /\ pc' = "displayed"
  /\ UNCHANGED <<repoVars, mode, calls, seenHead, statusOutput, status, stagedDiff,
                 diffOutput, result, message, lastMode, lastResult, lastMessage>>

NextSummary == DisplayChanges

SpecSummary == InitSummary /\ [][NextSummary]_vars

(***************************************************************************)
(* The suggester on its own: the message of any change set                 *)
(***************************************************************************)
\* largest number of files of the change sets tried
MaxFiles == 3

P_env == <<".","e","n","v">>

\* the paths of the change sets tried, in git's order
SuggestPaths == <<P_env, P_readme, P_liba, P_pkg, P_app, P_spec>>

\* the kinds extractFileChanges gives a file from its diff section or status line
Kinds == {"created", "deleted", "modified"}

\* a change set gives each path one kind or leaves it unchanged
ChangeSets ==
  {cs \in [1..Len(SuggestPaths) -> Kinds \cup {"none"}] :
     Cardinality({k \in 1..Len(SuggestPaths) : cs[k] # "none"}) \in 1..MaxFiles}

\* the paths of change set cs that have kind k, in order
PathsOfKind(cs, k) ==
  LET ks == SelectIdx([j \in 1..Len(SuggestPaths) |-> cs[j] = k], 1, Len(SuggestPaths))
  IN [j \in 1..Len(ks) |-> SuggestPaths[ks[j]]]

\* the changed paths of change set cs, in order
PathsChanged(cs) ==
  LET ks == SelectIdx([j \in 1..Len(SuggestPaths) |-> cs[j] # "none"], 1, Len(SuggestPaths))
  IN [j \in 1..Len(ks) |-> SuggestPaths[ks[j]]]

\* the result analyzeChanges builds for change set cs
AnalysisOf(cs) ==
  [hasChanges     |-> TRUE,
   mode           |-> "all",
   analysisScope  |-> AnalysisScope("all"),
   changeTypes    |-> [modified |-> PathsOfKind(cs, "modified"),
                       created  |-> PathsOfKind(cs, "created"),
                       deleted  |-> PathsOfKind(cs, "deleted"),
                       renamed  |-> <<>>],
   files          |-> PathsChanged(cs),
   categorization |-> categorizeFiles(PathsChanged(cs)),
   summary        |->
     [totalFiles   |-> Len(PathsChanged(cs)),
      modified     |-> Len(PathsOfKind(cs, "modified")),
      created      |-> Len(PathsOfKind(cs, "created")),
      deleted      |-> Len(PathsOfKind(cs, "deleted")),
      renamed      |-> 0,
      linesAdded   |-> 0,
      linesDeleted |-> 0,
      linesChanged |-> 0]]

InitSuggest ==
  /\ NoRun
  /\ paths = SuggestPaths
  /\ isRepo = TRUE
  /\ hasHead = TRUE
  /\ head = [k \in 1..Len(SuggestPaths) |-> 1]
  /\ index = head
  /\ work = head
  /\ flagsRenames = FALSE
  /\ pc = "done"
  /\ mode = "all"
  /\ calls = 1
  /\ seenHead = TRUE
  /\ statusOutput = <<>>
  /\ status = EmptyStatus
  /\ stagedDiff = <<>>
  /\ diffOutput = <<>>
  /\ \E cs \in ChangeSets : result = AnalysisOf(cs)
  /\ message = "null"
  /\ summaryLine = ""
  /\ lastMode = "none"
  /\ lastResult = NoResult
  /\ lastMessage = "null"

\* displayChanges and generateCommitMessage on the analysis
NextSuggest == Present

SpecSuggest == InitSuggest /\ [][NextSuggest]_vars

(***************************************************************************)
(* The status parser and the merge on any status text git can print        *)
(***************************************************************************)
\* largest number of lines of the status texts tried
MaxStatusLines == 2

P_notes == <<"t","e","s","t","/","N","o","t","e","s",".","M","D">>
P_css   == <<"c","o","n","f","i","g","/","s","i","t","e",".","c","s","s">>

\* the paths of the status texts tried
StatusPathSet == {P_liba, P_notes, P_css}

\* status characters git prints for a path that is not renamed or copied:
\* changes in the index, in the working tree and in both, type changes,
\* unmerged paths and untracked paths
StatusCodes ==
  { <<" ", "M">>, <<"M", " ">>, <<"A", " ">>, <<"D", " ">>, <<" ", "D">>,
    <<"M", "D">>, <<"A", "D">>, <<"T", " ">>, <<" ", "T">>,
    <<"U", "U">>, <<"U", "A">>, <<"?", "?">> }

\* the lists of k status lines (code and path) about distinct paths
StatusLineLists(k) ==
  {ls \in [1..k -> StatusCodes \X StatusPathSet] :
     \A i \in 1..k : \A j \in 1..k : i # j => ls[i][2] # ls[j][2]}

\* the text git prints for a list of lines
StatusText(ls) == Flatten([i \in 1..Len(ls) |-> ls[i][1] \o <<" ">> \o ls[i][2] \o <<"\n">>])

StatusTexts ==
  UNION {{StatusText(ls) : ls \in StatusLineLists(k)} : k \in 1..MaxStatusLines}

InitStatus ==
  /\ NoRun
  /\ paths = <<P_css, P_liba, P_notes>>
  /\ isRepo = TRUE
  /\ hasHead = TRUE
  /\ head = <<1, 1, 1>>
  /\ index = head
  /\ work = head
  /\ flagsRenames = FALSE
  /\ pc = "parse"
  /\ mode = "staged"
  /\ calls = 1
  /\ seenHead = TRUE
  /\ statusOutput \in StatusTexts
  /\ status = EmptyStatus
  /\ stagedDiff = <<>>
  /\ diffOutput = <<>>
  /\ result = NoResult
  /\ message = "null"
  /\ summaryLine = ""
  /\ lastMode = "none"
  /\ lastResult = NoResult
  /\ lastMessage = "null"

\* analyzeChanges from the status text on, for a diff without sections:
\* parsePorcelainStatus, extractFileChanges, categorizeFiles
ParseStatus ==
  /\ pc = "parse"
  /\ status' = parsePorcelainStatus(statusOutput)
  /\ result' = HeadResult(mode, diffOutput, statusOutput, status', flagsRenames)
  /\ pc' = "done"
  /\ UNCHANGED <<repoVars, mode, calls, seenHead, statusOutput, stagedDiff, diffOutput,
                 message, summaryLine, lastMode, lastResult, lastMessage, log, pushVars>>

NextStatus == ParseStatus

SpecStatus == InitStatus /\ [][NextStatus]_vars

(***************************************************************************)
(* Properties                                                              *)
(***************************************************************************)
\* a call has returned a result with changes
Returned == pc \in {"done", "shown"}
ReturnedChanges == Returned /\ result.hasChanges

\* the kinds changeTypes records for path f
KindsOf(ct, f) ==
  {k \in {"modified", "created", "deleted"} : Has(ct[k], f)}
    \cup (IF \E j \in 1..Len(ct.renamed) : ct.renamed[j].to = f THEN {"renamed"} ELSE {})

\* number of entries of the per-kind lists that name path f
KindEntries(ct, f) ==
  Count(ct.modified, f) + Count(ct.created, f) + Count(ct.deleted, f)
    + Cardinality({j \in 1..Len(ct.renamed) : ct.renamed[j].to = f})

\* path and kind of a parsed diff record, as the diff states them
RecordPath(file) == IF file.to # <<>> THEN file.to ELSE file.from
RecordKind(file) ==
  IF file.deleted THEN "deleted"
  ELSE IF file.new THEN "created"
  ELSE IF file.renamed THEN "renamed"
  ELSE "modified"
DiffKinds(parsed, f) ==
  {RecordKind(parsed[j]) : j \in {i \in 1..Len(parsed) : RecordPath(parsed[i]) = f}}

RECURSIVE SumOver(_, _)
\* sum of field fld over the records of a sequence
SumOver(recs, fld) ==
  IF recs = <<>> THEN 0 ELSE Head(recs)[fld] + SumOver(Tail(recs), fld)

\* C1: with a HEAD, mode 'staged', an empty cached diff and a non-empty
\* status listing, the result has hasChanges = false.
C1_StagedNothingStagedNoChanges ==
  (/\ pc = "done" /\ seenHead /\ mode = "staged"
   /\ diffOutput = <<>>
   /\ Trim(statusOutput) # <<>>)
  => result.hasChanges = FALSE

\* C2: for a non-empty parsed diff, lineStats.additions is the sum of the
\* files' added-line counts and lineStats.deletions the sum of their
\* deleted-line counts, every changed line counted once.
C2_LineStatsAreFileSums ==
  (ReturnedChanges /\ Len(result.parsedDiff) > 0)
  => /\ result.lineStats.additions = SumOver(result.parsedDiff, "additions")
     /\ result.lineStats.deletions = SumOver(result.parsedDiff, "deletions")
     /\ result.lineStats.additions + result.lineStats.deletions
          = SumOver(result.parsedDiff, "additions") + SumOver(result.parsedDiff, "deletions")

\* number of bucket entries that name path f
BucketEntries(cats, f) ==
  Count(cats.docs, f) + Count(cats.test, f) + Count(cats.config, f)
    + Count(cats.style, f) + Count(cats.source, f)

\* C3: in a result with changes every path of files is in exactly one of
\* the five buckets, and the buckets hold no path that is not in files.
C3_OneBucketPerFile ==
  ReturnedChanges
  => /\ \A f \in Range(result.files) :
          /\ Cardinality({b \in Buckets : Has(result.categorization[b], f)}) = 1
          /\ BucketEntries(result.categorization, f) = Count(result.files, f)
     /\ \A b \in Buckets : Range(result.categorization[b]) \subseteq Range(result.files)

\* C3 witness: a result whose files fall into two different buckets
C3_Witness ==
  /\ ReturnedChanges
  /\ Len(result.files) >= 2
  /\ Len(result.categorization.source) >= 1
  /\ Len(result.categorization.test) + Len(result.categorization.docs)
       + Len(result.categorization.config) >= 1

\* C4: every path of files has exactly one kind; a path that is both in
\* the diff and in the status listing keeps the kind the diff gave it.
C4_OneKindPerPath ==
  ReturnedChanges
  => \A f \in Range(result.files) :
       /\ Cardinality(KindsOf(result.changeTypes, f)) = 1
       /\ (seenHead /\ DiffKinds(result.parsedDiff, f) # {})
            => KindsOf(result.changeTypes, f) \subseteq DiffKinds(result.parsedDiff, f)

\* the paths with a section in both the cached diff and the diff against HEAD
InBothDiffs ==
  {f \in Range(result.files) :
     /\ \E j \in 1..Len(stagedDiff) : stagedDiff[j].new = f
     /\ \E j \in 1..Len(GitDiffHead(head, index, work)) :
           GitDiffHead(head, index, work)[j].new = f}

\* the largest number of changed lines one diff record of path f reports
MaxLinesOf(parsed, f) ==
  LET ns == {parsed[j].additions + parsed[j].deletions :
               j \in {i \in 1..Len(parsed) : RecordPath(parsed[i]) = f}}
  IN IF ns = {} THEN 0 ELSE CHOOSE n \in ns : \A m \in ns : m <= n

RECURSIVE SumMaxLines(_, _)
SumMaxLines(parsed, files) ==
  IF files = <<>> THEN 0
  ELSE MaxLinesOf(parsed, Head(files)) + SumMaxLines(parsed, Tail(files))

\* C5: in mode 'all' with a HEAD a file that is in both diffs is counted
\* once: once in files, once in its per-kind list, the per-kind counts add
\* up to totalFiles, and its changed lines are not counted twice.
C5_NoDoubleCountInAllMode ==
  (ReturnedChanges /\ seenHead /\ mode = "all" /\ InBothDiffs # {})
  => /\ \A f \in InBothDiffs :
          Count(result.files, f) = 1 /\ KindEntries(result.changeTypes, f) = 1
     /\ result.summary.modified + result.summary.created
          + result.summary.deleted + result.summary.renamed = result.summary.totalFiles
     /\ result.lineStats.total <= SumMaxLines(result.parsedDiff, result.files)

PureRename ==
  /\ paths = <<P_new, P_old>>
  /\ seenHead
  /\ head = <<0, 1>> /\ index = <<1, 0>> /\ work = <<1, 0>>

\* C7: a pure rename old.js -> new.js yields the single file new.js, of
\* kind renamed only, with no added and no deleted lines.
C7_PureRenameIsOneRenamedFile ==
  (Returned /\ PureRename)
  => /\ result.hasChanges
     /\ result.files = <<P_new>>
     /\ result.changeTypes.renamed = <<[from |-> P_old, to |-> P_new]>>
     /\ result.summary.renamed = 1
     /\ result.summary.modified = 0
     /\ result.summary.created = 0
     /\ result.summary.deleted = 0
     /\ result.lineStats.additions = 0
     /\ result.lineStats.deletions = 0

\* the only changed file is a created file of the test bucket
SingleCreatedTestFile ==
  /\ pc = "shown" /\ result.hasChanges
  /\ Len(result.files) = 1
  /\ BucketOf(result.files[1]) = "test"
  /\ Has(result.changeTypes.created, result.files[1])

\* C8 (as stated): for a single created test file the type is 'test' and
\* the description is 'add tests'.
C8_SingleTestFileAddTests ==
  SingleCreatedTestFile
  => /\ SuggestedType(result) = "test"
     /\ SuggestedDescription(result) = "add tests"

\* C8 (amended): for a single created test file the type is 'test' and the
\* description is 'add <basename>'; for test/foo.spec.js the message is
\* 'test(foo): add foo.spec.js'.
C8_SingleTestFileAddName ==
  SingleCreatedTestFile
  => /\ SuggestedType(result) = "test"
     /\ SuggestedDescription(result) = "add " \o Str(BaseName(result.files[1]))
     /\ result.files[1] = P_spec
          => /\ SuggestedDescription(result) = "add foo.spec.js"
             /\ message = "test(foo): add foo.spec.js"

\* C8 witness: test/foo.spec.js is the only file and it is created
C8_Witness == SingleCreatedTestFile /\ result.files = <<P_spec>>

\* the summary of the documented example
ExampleSummary ==
  [totalFiles |-> 3, modified |-> 2, created |-> 1, deleted |-> 0, renamed |-> 0,
   linesAdded |-> 42, linesDeleted |-> 15]

\* C9: the summary line of 3 files, 2 modified, 1 created, 42 lines added
\* and 15 deleted is '3 file(s) changed: 2 modified, 1 created (+42, -15)'.
C9_SummaryLineOfExample ==
  (pc = "displayed" /\ result.summary = ExampleSummary)
  => summaryLine = "3 file(s) changed: 2 modified, 1 created (+42, -15)"

\* the call ended on a query that git did not answer
QueryRejected(r) ==
  "error" \in DOMAIN r /\ r.error = "Failed to analyze git changes: " \o Str(E_query)

Mutating == {"add .", "commit", "push origin", "push -u origin"}

\* a mutating command has been issued by the run
HasMutation == \E i \in 1..Len(log) : log[i] \in Mutating

\* the user chose 'use', or chose 'edit' and submitted the edited message
Approved == action = "use" \/ (action = "edit" /\ pc # "edit")

\* C11: no add, commit or push is issued before the user has chosen 'use'
\* or confirmed an edited message, and a run that ends on a conflict, on a
\* no-changes result or on 'cancel' has issued none and left the index alone.
C11_NoMutationBeforeApproval ==
  /\ HasMutation => Approved
  /\ pc \in {"exitConflict", "exitNoChanges", "exitCancelled"} =>
       ~HasMutation /\ index = startIndex /\ results = NoResults

\* a run in which the user edited the message and the three steps ran
C11_Witness ==
  /\ pc = "exitDone" /\ action = "edit"
  /\ Has(log, "add .") /\ Has(log, "commit") /\ Has(log, "push origin")

\* the commit of the run has been created
CommitCreated ==
  "success" \in DOMAIN results.commit /\ results.commit.success /\ results.commit.hash # ""

\* C12: after a confirmed 'smartgit push --staged' the commit holds exactly
\* what was staged when the command started, and what was unstaged then is
\* still uncommitted in the working tree.
C12_StagedPushCommitsOnlyStaged ==
  (mode = "staged" /\ CommitCreated /\ startIndex # startHead) =>
    head = startIndex /\ work = startWork

\* the only change of path k is staged
OnlyStagedChange(k) == head[k] # index[k] /\ work[k] = index[k]

\* path f has a section in the parsed diff
InParsedDiff(parsed, f) ==
  \E j \in 1..Len(parsed) : parsed[j].to = f \/ parsed[j].from = f

\* C13: with a HEAD and mode 'unstaged' a file whose only change is staged
\* is not in files and has no section in the parsed diff (so it adds
\* nothing to lineStats).
C13_UnstagedExcludesStaged ==
  (ReturnedChanges /\ seenHead /\ mode = "unstaged") =>
    \A k \in 1..N :
      OnlyStagedChange(k) =>
        ~Has(result.files, paths[k]) /\ ~InParsedDiff(result.parsedDiff, paths[k])

\* C14: outside a git repository analyzeChanges fails after the repository
\* check alone, and the error the caller gets is exactly the not-a-repository
\* message.
C14_NotARepoVerbatim ==
  (pc = "failed" /\ ~isRepo) =>
    log = <<"checkIsRepo">> /\ result.error = NotARepoMessage

(***************************************************************************)
(* Properties of the status parser and of the categorisation               *)
(***************************************************************************)
\* the lines of a status text as git printed them
LinesOfText(text) == SelectSeq(Split(text, <<"\n">>), LAMBDA l : Len(l) > 0)

\* the path git reported on a line
LinePath(line) == SubSeq(line, 4, Len(line))

\* the line's status characters match the modified, created or deleted rule
MatchesARule(line) ==
  \/ line[1] = "M" \/ line[2] = "M"
  \/ line[1] = "A" \/ (line[1] = "?" /\ line[2] = "?")
  \/ line[1] = "D" \/ line[2] = "D"

\* the lines no rule matches (renames carry " -> ")
UnmatchedLines(text) ==
  SelectSeq(LinesOfText(text),
            LAMBDA l : ~MatchesARule(l) /\ l[1] # "R" /\ ~Includes(l, Arrow))

\* C15: a status line that matches none of the rules is treated as
\* modified: its path is in the parser's modified list and, with a HEAD and
\* no section in the diff, in files and changeTypes.modified of the result.
C15_UnmatchedLineIsModified ==
  (pc = "done" /\ result.hasChanges) =>
    \A i \in 1..Len(UnmatchedLines(statusOutput)) :
      LET line == UnmatchedLines(statusOutput)[i]
      IN line[1] # " " =>
           /\ Has(status.modified, LinePath(line))
           /\ Has(result.files, LinePath(line))
           /\ Has(result.changeTypes.modified, LinePath(line))

\* number of lines git prints that are not renames and carry a D
DeletedLines(h, i, w) ==
  Cardinality({k \in 1..N :
     /\ TrackedLine(h, i, w, k) # <<>>
     /\ StatusX(h, i, k) # "R"
     /\ (StatusX(h, i, k) = "D" \/ StatusY(i, w, k) = "D")})

\* C16: every non-rename status line with D as index or working-tree
\* character is classified as deleted, so the deleted list has one entry
\* per such line.
C16_DInEitherColumnIsDeleted ==
  pc \in {"diff", "diff2", "firstCommitDiff", "done", "shown"} =>
    Len(status.deleted) = DeletedLines(head, index, work)

\* CONFIG.filePatterns as the table the priority order indexes
PatternTable ==
  [docs |-> DocsPatterns, test |-> TestPatterns, config |-> ConfigPatterns,
   style |-> StylePatterns]

Priority == <<"docs", "test", "config", "style">>

\* the first bucket in priority order with a pattern in the lower-cased path
FirstMatch(f) ==
  LET hits == {i \in 1..Len(Priority) :
                 \E p \in PatternTable[Priority[i]] : Includes(ToLowerCase(f), p)}
  IN IF hits = {} THEN "source"
     ELSE Priority[CHOOSE i \in hits : \A j \in hits : i <= j]

\* C17: every file of a result is in exactly the bucket that the priority
\* order docs, test, config, style gives for its own path (source when no
\* pattern matches), whatever the other files and their order are.
C17_BucketIsFirstMatchOfPath ==
  (pc = "done" /\ result.hasChanges) =>
    \A i \in 1..Len(result.files) :
      \A b \in Buckets :
        Has(result.categorization[b], result.files[i]) <=> b = FirstMatch(result.files[i])

\* a result where a path with a docs and a test pattern follows a path with
\* a config and a style pattern
C17_Witness ==
  /\ pc = "done" /\ result.hasChanges
  /\ result.files = <<P_css, P_notes>>
  /\ result.categorization.docs = <<P_notes>>
  /\ result.categorization.config = <<P_css>>

(***************************************************************************)
(* Properties of the suggested message and of the first commit             *)
(***************************************************************************)
\* the changes are exactly the two modified files README.md and docs/guide.md
TwoModifiedDocs ==
  /\ pc = "shown" /\ result.hasChanges
  /\ Range(result.files) = {P_readme, P_guide} /\ Len(result.files) = 2
  /\ Range(result.changeTypes.modified) = {P_readme, P_guide}
  /\ Len(result.changeTypes.modified) = 2
  /\ result.changeTypes.created = <<>>
  /\ result.changeTypes.deleted = <<>>
  /\ result.changeTypes.renamed = <<>>
  /\ \A k \in 1..N : index[k] # 0 /\ work[k] # 0

RECURSIVE TreeLines(_, _)
\* number of lines of the files of tree t among its first k paths
TreeLines(t, k) ==
  IF k = 0 THEN 0 ELSE TreeLines(t, k - 1) + Cardinality(LinesOf(t[k]))

\* a repository without commits whose files are all staged
FreshAllStaged ==
  /\ ~hasHead /\ work = index
  /\ \E k \in 1..N : index[k] # 0

\* C19: without a HEAD the line statistics count every line of every staged
\* file as an addition: in a fresh repository whose files are all staged,
\* additions is the number of lines of the staged files and deletions is 0.
C19_FirstCommitCountsAllLines ==
  (Returned /\ FreshAllStaged) =>
    /\ result.hasChanges
    /\ result.lineStats.additions = TreeLines(index, N)
    /\ result.lineStats.deletions = 0

(***************************************************************************)
(* Properties of executeGitWorkflow                                        *)
(***************************************************************************)
\* results.commit records a successful commit step
CommitSucceeded == "success" \in DOMAIN results.commit /\ results.commit.success

\* results.push records a push skipped for want of a remote
PushSkipped == "skipped" \in DOMAIN results.push /\ results.push.skipped

\* results.push records a failed push
PushFailed ==
  "success" \in DOMAIN results.push /\ ~results.push.success /\ ~PushSkipped

\* C20: once the commit step has succeeded executeGitWorkflow does not
\* throw: it returns results with push set; a missing remote gives
\* push.skipped and no entry in errors, a failed push gives push.success =
\* false and a 'Failed to push' entry in errors.
C20_PushFailureIsReturned ==
  /\ CommitSucceeded => pc \in {"remotes", "push", "pushUpstream", "exitDone"}
  /\ pc = "exitDone" =>
       /\ CommitSucceeded
       /\ results.push # NullField
       /\ PushSkipped => ~results.push.success /\ results.errors = <<>>
       /\ PushFailed =>
            results.errors = <<"Failed to push: " \o results.push.error>>
       /\ results.errors # <<>> => PushFailed

\* the workflow has returned after the retry with -u failed as well
C20_Witness ==
  /\ pc = "exitDone" /\ PushFailed
  /\ Has(log, "push -u origin")
  /\ results.errors # <<>>

(***************************************************************************)
(* Properties of the suggester on any change set                           *)
(***************************************************************************)
\* the message of the analysis has been generated
Suggested == pc = "shown" /\ result.hasChanges

\* the files of the result are all in the docs bucket
AllDocs ==
  /\ Len(result.files) > 0
  /\ Len(result.categorization.docs) = Len(result.files)

\* the type and scope part of the message, before ': '
MessageHead ==
  SuggestedType(result)
    \o (IF SuggestedScope(result) # Null /\ SuggestedScope(result) # <<>>
        THEN "(" \o Str(SuggestedScope(result)) \o ")" ELSE "")

\* the scope part of the message
ScopePart ==
  IF SuggestedScope(result) # Null /\ SuggestedScope(result) # <<>>
  THEN "(" \o Str(SuggestedScope(result)) \o ")" ELSE ""

\* the message the result gets when its type is t
MessageOfType(t) == t \o ScopePart \o ": " \o SuggestedDescription(result)

\* C21: the primary type is 'docs' exactly when all changed files are in
\* the documentation bucket.
C21_DocsTypeIffAllDocs ==
  Suggested => (message = MessageOfType("docs") <=> AllDocs)

\* position of the last '/' of path f, 0 when there is none
LastSlash(f) ==
  IF \E i \in 1..Len(f) : f[i] = "/"
  THEN CHOOSE i \in 1..Len(f) : f[i] = "/" /\ \A j \in (i + 1)..Len(f) : f[j] # "/"
  ELSE 0

\* the basename of path f
NameOfPath(f) == SubSeq(f, LastSlash(f) + 1, Len(f))

\* the verb of a single file's description, by the file's kind
VerbOfKind(ct, f) ==
  IF Has(ct.created, f) THEN "add "
  ELSE IF Has(ct.deleted, f) THEN "remove "
  ELSE "update "

StemOfName(name) ==
  IF \E i \in 1..Len(name) : name[i] = "."
  THEN SubSeq(name, 1, (CHOOSE i \in 1..Len(name) :
                          name[i] = "." /\ \A j \in 1..(i - 1) : name[j] # ".") - 1)
  ELSE name

\* C23: for a change set of exactly one file the message is
\* type(scope): description, the scope being the file's basename without
\* its extension, lower-cased.
C23_SingleFileScope ==
  (Suggested /\ Len(result.files) = 1) =>
    message = SuggestedType(result)
                \o "(" \o Str(ToLowerCase(StemOfName(NameOfPath(result.files[1])))) \o ")"
                \o ": " \o SuggestedDescription(result)

\* several files, a source file among them, and more deleted files than
\* created ones and than modified ones
DeletionMajority ==
  /\ Len(result.files) >= 2
  /\ Len(result.categorization.source) > 0
  /\ Len(result.changeTypes.deleted) > Len(result.changeTypes.created)
  /\ Len(result.changeTypes.deleted) > Len(result.changeTypes.modified)

\* C24: a multi-file change set with source files in which deleted files
\* are the majority gets the description 'remove deprecated code'.
C24_DeletionMajorityDescription ==
  (Suggested /\ DeletionMajority) =>
    message = MessageHead \o ": remove deprecated code"

(***************************************************************************)
(* Properties of the order of git commands                                 *)
(***************************************************************************)
\* the commands issued by executeGitWorkflow: the log from 'add .' on
WorkflowLog ==
  IF \E i \in 1..Len(log) : log[i] = "add ."
  THEN LET i == CHOOSE k \in 1..Len(log) :
                  log[k] = "add ." /\ \A j \in 1..(k - 1) : log[j] # "add ."
       IN  SubSeq(log, i, Len(log))
  ELSE <<>>

\* the commands of the push stage
PushStageCommands == {"status", "getRemotes", "push origin", "push -u origin"}

\* C25: the workflow issues add, then commit, then the push stage; commit
\* only after add succeeded, the push stage only after commit succeeded; a
\* failed add or commit ends the run with an error naming the step and no
\* later command.
C25_StepsInOrder ==
  LET w == WorkflowLog IN
  /\ Len(w) >= 1 => Count(w, "add .") = 1
  /\ Len(w) >= 2 => /\ w[2] = "commit"
                    /\ Count(w, "commit") = 1
                    /\ results.add # NullField /\ results.add.success
  /\ Len(w) >= 3 => /\ CommitSucceeded
                    /\ \A i \in 3..Len(w) : w[i] \in PushStageCommands
  /\ (Len(w) >= 1 /\ results.add = NullField) =>
       /\ w = <<"add .">>
       /\ pc = "exitThrew"
       /\ shownError = "Failed to stage changes: " \o GitError
  /\ (Len(w) >= 2 /\ results.commit = NullField) =>
       /\ w = <<"add .", "commit">>
       /\ pc = "exitThrew"
       /\ shownError = "Failed to commit changes: " \o GitError

\* the add succeeded, the commit failed and the run has ended
C25_Witness ==
  /\ pc = "exitThrew"
  /\ WorkflowLog = <<"add .", "commit">>
  /\ results.add # NullField /\ results.commit = NullField

\* the first failure of the push stage carries a missing-upstream message
MissingUpstreamFailure == pushError \in {E_noUpstream, E_setUpstream}

\* C26: one run issues 'push origin' at most once and 'push -u origin' at
\* most once; the push with -u is issued only after a first failure of the
\* push stage with a missing-upstream message, and it is the last command.
C26_AtMostOneRetry ==
  LET w == WorkflowLog IN
  /\ Count(w, "push origin") <= 1
  /\ Count(w, "push -u origin") <= 1
  /\ Has(w, "push -u origin") =>
       /\ MissingUpstreamFailure
       /\ w[Len(w)] = "push -u origin"
  /\ (pushError # <<>> /\ ~MissingUpstreamFailure) =>
       /\ pc = "exitDone"
       /\ ~Has(w, "push -u origin")

\* the first push failed for want of an upstream and the retry was issued
C26_Witness ==
  /\ pc = "exitDone"
  /\ pushError = E_setUpstream
  /\ Has(WorkflowLog, "push origin") /\ Has(WorkflowLog, "push -u origin")

\* the diff queries of the analyzer
DiffQueries == {"diff", "diff --cached HEAD", "diff HEAD"}

\* s is an initial part of t
IsPrefix(s, t) == Len(s) <= Len(t) /\ s = SubSeq(t, 1, Len(s))

\* the diff queries issued so far by the call
DiffsIssued == SubSeq(log, 4, Len(log))

\* the queries come in the order repository check, HEAD resolution, status
\* listing, diffs, each at most once
QueriesInOrder ==
  /\ IsPrefix(SubSeq(log, 1, IF Len(log) < 3 THEN Len(log) ELSE 3),
              <<"checkIsRepo", "rev-parse HEAD", "status --porcelain">>)
  /\ \A i \in 4..Len(log) : log[i] \in DiffQueries
  /\ \A i, j \in 1..Len(log) : log[i] = log[j] => i = j

\* a call that fails on a query returns no result, only the error
QueryFailureEndsCall ==
  pc = "failed" => DOMAIN result = {"error"} /\ Len(log) <= 5

\* the diffs of the mode: the cached diff before the working-tree diff in
\* mode 'all', exactly one diff in the modes 'staged' and 'unstaged'
DiffsOfMode ==
  IF mode \in {"staged", "unstaged"}
  THEN /\ Len(DiffsIssued) <= 1
       /\ Returned => Len(DiffsIssued) = 1
  ELSE /\ IsPrefix(DiffsIssued, <<"diff --cached HEAD", "diff HEAD">>)
       /\ Returned => Len(DiffsIssued) = 2

\* C27: one call of analyzeChanges issues repository check, HEAD
\* resolution, status listing and then the diffs of its mode, each at most
\* once; after a failing status or diff query nothing more is issued and
\* the call fails without a result.
C27_QueriesInOrder ==
  pc \notin {"idle"} => QueriesInOrder /\ DiffsOfMode /\ QueryFailureEndsCall

\* the part of C27 that the code keeps: order, no repetition, failure
C27_OrderAndFailure ==
  pc \notin {"idle"} => QueriesInOrder /\ QueryFailureEndsCall

\* the paths git reported in a status text
ReportedPaths(text) ==
  {LinePath(LinesOfText(text)[i]) : i \in 1..Len(LinesOfText(text))}

\* every entry of the list is a path of the status text
AllReported(list) == \A i \in 1..Len(list) : list[i] \in ReportedPaths(statusOutput)

\* C28: the path the parser records for a line, the first line and a line
\* with a space as index status included, is the text after the two status
\* characters and the space: every path of the parser's lists and of the
\* result's files is a path git reported, and every reported path is in
\* the parser's files.
C28_RecordedPathsAreReported ==
  pc = "done" =>
    /\ AllReported(status.files)
    /\ AllReported(status.modified)
    /\ AllReported(status.created)
    /\ AllReported(status.deleted)
    /\ result.hasChanges => AllReported(result.files)
    /\ \A f \in ReportedPaths(statusOutput) : Has(status.files, f)

\* C29: a result with hasChanges = true has a file: files is non-empty,
\* summary.totalFiles is at least 1 and one of the per-kind lists is
\* non-empty.
C29_ChangesHaveAFile ==
  (Returned /\ result.hasChanges) =>
    /\ Len(result.files) >= 1
    /\ result.summary.totalFiles >= 1
    /\ \/ result.changeTypes.modified # <<>>
       \/ result.changeTypes.created # <<>>
       \/ result.changeTypes.deleted # <<>>
       \/ result.changeTypes.renamed # <<>>

\* C30: the mode field of every result equals the mode the caller asked
\* for, with and without a HEAD, with and without changes.
C30_ResultModeIsRequestedMode ==
  Returned => "mode" \in DOMAIN result /\ result.mode = mode

====
